---- MODULE Spec2Model ----
(***************************************************************************)
(* The image registry of internal/restorable (images.go) together with the *)
(* restorable images it tracks and the context-loss coordinator that       *)
(* drives it.  The registry operations are translated from images.go; the  *)
(* per-image operations (image.go is not part of the sources at hand) and  *)
(* the coordinator follow sections 3 and 4 of the specification.           *)
(*                                                                         *)
(* Every registry operation runs with images.m held from its first to its  *)
(* last statement, so each is one atomic step here.  The iteration order   *)
(* of the Go map and the GPU operation that fails, if any, are inputs of   *)
(* the step.  History variables record what the last step did; they never  *)
(* influence the program's state.                                          *)
(*                                                                         *)
(* Further specifications share the module.  SpecRegistry runs the         *)
(* registry operations as concurrent callers that take and release         *)
(* images.m step by step.  SpecContext runs concurrent NewContext and      *)
(* CurrentContext calls of audio/audio.go, and SpecAudio the players of    *)
(* an audio context together with the mixer that reads them, each call     *)
(* being one step.  SpecProtocol runs the methods of a player, its read    *)
(* loop and players.Read as goroutines that meet on the player's channels, *)
(* and SpecProtocolFair adds fair scheduling.  The variables of the other  *)
(* parts stay constant under each specification.                           *)
(***************************************************************************)
EXTENDS Integers, Sequences, FiniteSets, TLC

\* ------------------------------------------------------------ bounds
NumImages == 3      \* image identities that can ever be allocated
MaxLog == 2         \* longest draw log an image may accumulate
PixMod == 2         \* number of distinct pixel contents
MaxOps == 4         \* application calls and loss notifications in one run
NumCallers == 2     \* goroutines that call into a package concurrently
NumPlayers == 2     \* audio players that can ever be created
NumSources == 2     \* distinct source streams
MaxBuf == 2         \* samples a player buffers before its read loop rests
ReadLen == 2        \* samples the mixer asks for in one Read
StepPlayers == 1    \* players created when the read loop runs step by step
PosMod == 2         \* Player.pos is kept modulo PosMod

\* ------------------------------------------------------------ values
Nil == 0            \* the nil *Image
ClearValue == 0     \* the default clear colour
Absent == -1        \* pixelCache not materialized
Garbage == -2       \* content of a surface that belongs to a lost context

Ids == 1..NumImages
Pixels == 0..(PixMod - 1)

Callers == 1..NumCallers
PlayerIds == 1..NumPlayers
SourceIds == 1..NumSources
NilBuf == -1        \* Player.buf is nil

NoErr == "nil"
SharedSourceError == "audio: src cannot be shared with another Player"
AlreadyClosedError == "audio: the player is already closed"
SeekError == "error of src.Seek"
ReadError == "error of src.Read"
DependencyError == "DependencyError"
GPUReadError == "GPUReadError"
RestoreError == "RestoreError"

VARIABLES
    images,         \* images.images: the registry's live-image set
    lastChecked,    \* images.lastChecked
    disposed,       \* identities whose image has been disposed
    isVolatile,     \* per image: the volatile flag
    base,           \* per image: the last base (clear value or uploaded buffer)
    drawLog,        \* per image: sequence of source identities
    gpuSurface,     \* per image: content of its GPU surface
    pixelCache,     \* per image: CPU-side cache, or Absent
    stale,          \* per image: staleness flag
    needsRestore,   \* images whose surface has been invalidated and not restored
    phase,          \* coordinator: "NORMAL", "RESTORING", "FATAL"
    pc,             \* coordinator step inside RESTORING
    op,             \* history: the last operation, its result, and for a draw its images
    visited,        \* history: images visited by the last registry pass, in order
    failedAt,       \* history: image whose per-image operation failed in that pass
    readBacks,      \* history: images read back from the GPU by the last registry pass
    preLoss,        \* history: surface contents when the context was lost
    drawsOnly,      \* history: only creations, initial uploads and draws so far
    lossAfterClear, \* history: the loss arrived directly after ClearVolatileImages
    ops,            \* history: application calls and loss notifications so far
    episode,        \* history: the ResolveStalePixels runs of the current loss episode
    mutex,          \* images.m: "unlocked", "locked", or "fatal" after a bad Unlock
    call,           \* per caller: the registry operation it is in and its position
    addedNotRemoved,\* history: images added and not removed afterwards
    lastReturn,     \* history: the exit path of the last registry call that returned
    theContext,     \* audio.theContext: Nil or the Context
    theContextLock, \* audio.theContextLock: "unlocked" or "locked"
    ctxCall,        \* per goroutine: its NewContext or CurrentContext call
    allocated,      \* number of Context objects NewContext has allocated
    players,        \* players.players: the players the mixer reads
    player,         \* per player: src, read loop, buf, srcEOF, readErr, timer
    ctxErr,         \* Context.err is set: Context.loop has returned
    aop,            \* history: the last audio operation and its result
    pcall,          \* per goroutine: its call of a Player method and its position
    mixer,          \* the players.Read call of Context.loop and its position
    pos             \* per player: Player.pos, kept modulo PosMod

restorableVars ==
    <<images, lastChecked, disposed, isVolatile, base, drawLog, gpuSurface,
      pixelCache, stale, needsRestore, phase, pc, op, visited, failedAt,
      readBacks, preLoss, drawsOnly, lossAfterClear, ops, episode>>
lockVars == <<mutex, call, addedNotRemoved, lastReturn>>
contextVars == <<theContext, theContextLock, ctxCall, allocated>>
playerVars == <<players, player, ctxErr, aop>>
protocolVars == <<pcall, mixer, pos>>

vars == <<restorableVars, lockVars, contextVars, playerVars, protocolVars>>

\* ------------------------------------------------------------ helpers
Range(s) == {s[k] : k \in 1..Len(s)}

\* Every order in which a Go map holding exactly the keys S can be iterated.
Orders(S) ==
    {f \in [1..Cardinality(S) -> S] : \A a, b \in 1..Cardinality(S) : f[a] = f[b] => a = b}

OpRec(n, t, s, e) == [name |-> n, target |-> t, src |-> s, err |-> e]

\* A caller that is in no registry operation.
NoCall == [name |-> "none", pc |-> "idle", path |-> "none"]

\* A goroutine that is in no NewContext or CurrentContext call.
NoCtxCall == [name |-> "none", pc |-> "idle", c |-> Nil, result |-> "none"]

\* A Player that has not been created.
NoPlayer == [src |-> Nil, loop |-> "none", buf |-> NilBuf, srcEOF |-> FALSE,
             readErr |-> FALSE, timer |-> FALSE]

\* History of an audio operation: its name, player, source and result;
\* shared and srcCloseErr are set by NewPlayer and Close, removed by Read.
AudioOp(n, p, s, e) ==
    [name |-> n, p |-> p, src |-> s, err |-> e, shared |-> FALSE,
     srcCloseErr |-> FALSE, removed |-> {}]

\* A goroutine that is in no call of a Player method.  err is the error its
\* last call returned or, during a Seek, has still to return; srcPos is the
\* position src.Seek returned to the read loop.
NoPCall == [name |-> "none", p |-> Nil, pc |-> "idle", err |-> NoErr, srcPos |-> 0]

\* Context.loop is in no players.Read call.  l, the players a loop of Read
\* has still to visit, the player it is waiting for, the length of the slice
\* on its way back, whether a slice shorter than l has come back, and the
\* players found at end of stream.
NoRead == [pc |-> "idle", l |-> 0, todo |-> {}, cur |-> Nil, b16 |-> 0,
           short |-> FALSE, closed |-> {}]

\* drawTriangles(dest, src): the composite of one source onto one destination.
\* Drawing from (or onto) a surface of the lost context gives indeterminate
\* content, which equals no determinate content.
Blend(d, s) ==
    IF d = Garbage \/ s = Garbage THEN Garbage ELSE (d + s + 1) % PixMod

\* ------------------------------------------------------------ per-image operations
\* Staleness resolution is needed when the cache is absent or flagged stale.
NeedsReadBack(cache, st, i) == cache[i] = Absent \/ st[i]

\* What readPixels returns once staleness is resolved.
PixelsOf(i) ==
    IF NeedsReadBack(pixelCache, stale, i) THEN gpuSurface[i] ELSE pixelCache[i]

\* Image.resolveStalePixels on a pass state s; fail = the read-back fails.
ImgResolveStalePixels(s, i, fail) ==
    IF ~NeedsReadBack(s.pixelCache, s.stale, i) THEN s
    ELSE IF fail THEN [s EXCEPT !.err = GPUReadError, !.failedAt = i]
    ELSE [s EXCEPT !.pixelCache[i] = s.gpuSurface[i],
                   !.stale[i] = FALSE,
                   !.readBacks = @ \cup {i}]

\* Variant of InvalidateCache: the cache of the destination is kept.
InvalidateCacheSkipped(cache, i) == cache

\* Image.draw invalidates the pixelCache of its destination i.
InvalidateCache(cache, i) == [cache EXCEPT ![i] = Absent]

\* Image.makeStaleIfDependingOn: the new staleness flag of image i.
ImgMakeStaleIfDependingOn(log, st, i, target) ==
    IF target \in Range(log[i]) THEN TRUE ELSE st[i]

\* Image.hasDependency: the draw log references another still-live image.
HasDependency(i) == \E s \in Range(drawLog[i]) : s \in images \ {i}

\* Replay of image i's provenance on fresh surfaces: the base, then every
\* draw log entry in order.  surf holds the current surface contents.
RECURSIVE Replay(_, _, _, _)
Replay(content, log, surf, i) ==
    IF log = <<>> THEN content
    ELSE Replay(Blend(content, surf[Head(log)]), Tail(log), surf, i)

\* Image.restore on a pass state s; fail = a GPU operation of the replay fails.
ImgRestore(s, i, fail) ==
    IF fail \/ Range(drawLog[i]) \cap disposed # {}
    THEN [s EXCEPT !.err = RestoreError, !.failedAt = i]
    ELSE [s EXCEPT !.gpuSurface[i] = Replay(base[i], drawLog[i], s.gpuSurface, i),
                   !.pixelCache[i] = Absent,
                   !.stale[i] = FALSE,
                   !.needsRestore = @ \ {i}]

\* ------------------------------------------------------------ registry operations
\* Variant of add: the map is made anew with the one image in it.
addReplaces(set, img) == {img}

\* images.add
add(set, img) == set \cup {img}

\* images.remove
remove(set, img) == set \ {img}

\* Variant of resolveLoop: the error is remembered but the loop goes on.
RECURSIVE resolveLoopGoesOn(_, _, _)
resolveLoopGoesOn(order, s, gpuFail) ==
    IF order = <<>> THEN s
    ELSE LET img == Head(order)
             r == ImgResolveStalePixels([s EXCEPT !.visited = Append(@, img)],
                                        img, img = gpuFail)
         IN resolveLoopGoesOn(Tail(order), r, gpuFail)

\* Variant of resolveLoop: returns nil after the first image of the iteration.
resolveLoopFirstOnly(order, s, gpuFail) ==
    IF order = <<>> THEN s
    ELSE ImgResolveStalePixels([s EXCEPT !.visited = Append(@, Head(order))],
                               Head(order), Head(order) = gpuFail)

\* Variant of resolveLoop: a failing image is skipped and the error dropped.
RECURSIVE resolveLoopSwallows(_, _, _)
resolveLoopSwallows(order, s, gpuFail) ==
    IF order = <<>> THEN s
    ELSE LET img == Head(order)
             s1 == [s EXCEPT !.visited = Append(@, img)]
             r == ImgResolveStalePixels(s1, img, img = gpuFail)
         IN IF r.err # NoErr
            THEN resolveLoopSwallows(Tail(order), [s1 EXCEPT !.failedAt = img], gpuFail)
            ELSE resolveLoopSwallows(Tail(order), r, gpuFail)

\* images.resolveStalePixels, the loop over the map in iteration order `order`.
RECURSIVE resolveLoop(_, _, _)
resolveLoop(order, s, gpuFail) ==
    IF order = <<>> THEN s
    ELSE LET img == Head(order)
             r == ImgResolveStalePixels([s EXCEPT !.visited = Append(@, img)],
                                        img, img = gpuFail)
         IN IF r.err # NoErr THEN r ELSE resolveLoop(Tail(order), r, gpuFail)

\* images.resetPixelsIfDependingOn: the new lastChecked and staleness flags.
resetPixelsIfDependingOn(target, log, st) ==
    IF target = Nil THEN [lastChecked |-> lastChecked, stale |-> st]
    ELSE IF lastChecked = target THEN [lastChecked |-> lastChecked, stale |-> st]
    ELSE [lastChecked |-> target,
          stale |-> [i \in Ids |->
                        IF i \in images
                        THEN ImgMakeStaleIfDependingOn(log, st, i, target)
                        ELSE st[i]]]

\* images.restore, the partition of the live images.
imagesWithoutDependency == {i \in images : ~HasDependency(i)}
imagesWithDependency == {i \in images : HasDependency(i)}

\* Variant of restoreSequence: the images with a dependency come first.
restoreSequenceSwapped(without, with) == with \o without

\* Variant of restoreSequence: the first loop is missing.
restoreSequenceDependentOnly(without, with) == with

\* images.restore, the order of the two restore loops.
restoreSequence(without, with) == without \o with

\* Variant of restoreLoop: the error is remembered but the loops go on.
RECURSIVE restoreLoopGoesOn(_, _, _)
restoreLoopGoesOn(order, s, gpuFail) ==
    IF order = <<>> THEN s
    ELSE LET img == Head(order)
             r == ImgRestore([s EXCEPT !.visited = Append(@, img)], img, img = gpuFail)
         IN restoreLoopGoesOn(Tail(order), r, gpuFail)

\* Variant of restoreLoop: a failing image is skipped and the error dropped.
RECURSIVE restoreLoopSwallows(_, _, _)
restoreLoopSwallows(order, s, gpuFail) ==
    IF order = <<>> THEN s
    ELSE LET img == Head(order)
             s1 == [s EXCEPT !.visited = Append(@, img)]
             r == ImgRestore(s1, img, img = gpuFail)
         IN IF r.err # NoErr
            THEN restoreLoopSwallows(Tail(order), s1, gpuFail)
            ELSE restoreLoopSwallows(Tail(order), r, gpuFail)

\* images.restore, the restore loops over `order`.
RECURSIVE restoreLoop(_, _, _)
restoreLoop(order, s, gpuFail) ==
    IF order = <<>> THEN s
    ELSE LET img == Head(order)
             r == ImgRestore([s EXCEPT !.visited = Append(@, img)], img, img = gpuFail)
         IN IF r.err # NoErr THEN r ELSE restoreLoop(Tail(order), r, gpuFail)

\* Variant of clearTargets: the loop ends after the first image.
clearTargetsFirstOnly(set) == IF set = {} THEN {} ELSE {CHOOSE i \in set : TRUE}

\* images.clearVolatileImages: the images clearIfVolatile is invoked on.
clearTargets(set) == set

\* ------------------------------------------------------------ initial state
NoSnapshot == [i \in Ids |-> Absent]

\* No loss episode is under way.
NoEpisode == [resolves |-> 0, failed |-> FALSE]

\* theImages: an empty registry, no image allocated yet.
InitImages ==
    /\ images = {}
    /\ lastChecked = Nil
    /\ disposed = {}
    /\ isVolatile = [i \in Ids |-> FALSE]
    /\ base = [i \in Ids |-> ClearValue]
    /\ drawLog = [i \in Ids |-> <<>>]
    /\ gpuSurface = [i \in Ids |-> Garbage]
    /\ pixelCache = [i \in Ids |-> Absent]
    /\ stale = [i \in Ids |-> FALSE]
    /\ needsRestore = {}
    /\ phase = "NORMAL"
    /\ pc = "idle"
    /\ op = OpRec("init", Nil, Nil, NoErr)
    /\ visited = <<>>
    /\ failedAt = Nil
    /\ readBacks = {}
    /\ preLoss = NoSnapshot
    /\ drawsOnly = TRUE
    /\ lossAfterClear = FALSE
    /\ ops = 0
    /\ episode = NoEpisode

\* images.m is free and no caller is inside the registry.
InitLock ==
    /\ mutex = "unlocked"
    /\ call = [t \in Callers |-> NoCall]
    /\ addedNotRemoved = {}
    /\ lastReturn = "none"

\* audio: theContext is nil, theContextLock is free.
InitContext ==
    /\ theContext = Nil
    /\ theContextLock = "unlocked"
    /\ ctxCall = [g \in Callers |-> NoCtxCall]
    /\ allocated = 0

\* audio: the state NewContext leaves behind, one Context and its lock free.
ContextCreated ==
    /\ theContext = 1
    /\ theContextLock = "unlocked"
    /\ ctxCall = [g \in Callers |-> NoCtxCall]
    /\ allocated = 1

\* A fresh Context: no player created, none playing, no error.
InitPlayers ==
    /\ players = {}
    /\ player = [p \in PlayerIds |-> NoPlayer]
    /\ ctxErr = FALSE
    /\ aop = AudioOp("init", Nil, Nil, NoErr)

\* No Player method and no players.Read is running; p.pos is 0.
InitProtocol ==
    /\ pcall = [t \in Callers |-> NoPCall]
    /\ mixer = NoRead
    /\ pos = [p \in PlayerIds |-> 0]

Init == InitImages /\ InitLock /\ InitContext /\ InitPlayers /\ InitProtocol

\* The program once NewContext has returned.
InitAudio == InitImages /\ InitLock /\ ContextCreated /\ InitPlayers /\ InitProtocol

\* The parts of the program a specification does not run stay as they are.
ImagesOnly == UNCHANGED <<lockVars, contextVars, playerVars, protocolVars>>

\* One more call of the application or notification of the environment.
Counted == ops < MaxOps /\ ops' = ops + 1

\* History variables of an application-level step that is no registry pass;
\* such a step touches nothing outside the restorable package.
History(o, rb, only) ==
    /\ op' = o
    /\ visited' = <<>>
    /\ failedAt' = Nil
    /\ readBacks' = rb
    /\ preLoss' = NoSnapshot
    /\ drawsOnly' = only
    /\ lossAfterClear' = FALSE
    /\ episode' = NoEpisode
    /\ ImagesOnly

\* ------------------------------------------------------------ image lifecycle
\* Image construction: allocate the surface, clear it, register the image.
NewImage(i, vol) ==
    /\ phase = "NORMAL"
    /\ i \notin images \cup disposed
    /\ \A j \in 1..(i - 1) : j \in images \cup disposed
    /\ images' = add(images, i)
    /\ isVolatile' = [isVolatile EXCEPT ![i] = vol]
    /\ gpuSurface' = [gpuSurface EXCEPT ![i] = ClearValue]
    /\ History(OpRec("newImage", Nil, Nil, NoErr), {}, drawsOnly)
    /\ UNCHANGED <<lastChecked, disposed, base, drawLog, pixelCache, stale,
                   needsRestore, phase, pc, ops>>

\* Image disposal: destroy the surface, unregister the image.
Dispose(i) ==
    /\ phase = "NORMAL"
    /\ Counted
    /\ i \in images
    /\ images' = remove(images, i)
    /\ disposed' = disposed \cup {i}
    /\ gpuSurface' = [gpuSurface EXCEPT ![i] = Garbage]
    /\ pixelCache' = [pixelCache EXCEPT ![i] = Absent]
    /\ drawLog' = [drawLog EXCEPT ![i] = <<>>]
    /\ base' = [base EXCEPT ![i] = ClearValue]
    /\ stale' = [stale EXCEPT ![i] = FALSE]
    /\ History(OpRec("dispose", Nil, Nil, NoErr), {}, FALSE)
    /\ UNCHANGED <<lastChecked, isVolatile, needsRestore, phase, pc>>

\* ------------------------------------------------------------ image operations
\* Image.replacePixels: direct upload; the upload becomes the new base.
ReplacePixels(i, v) ==
    /\ phase = "NORMAL"
    /\ Counted
    /\ i \in images
    /\ base' = [base EXCEPT ![i] = v]
    /\ gpuSurface' = [gpuSurface EXCEPT ![i] = v]
    /\ pixelCache' = [pixelCache EXCEPT ![i] = v]
    /\ stale' = [stale EXCEPT ![i] = FALSE]
    /\ drawLog' = [drawLog EXCEPT ![i] = <<>>]
    /\ History(OpRec("replacePixels", Nil, Nil, NoErr), {},
               drawsOnly /\ \A j \in images : drawLog[j] = <<>>)
    /\ UNCHANGED <<images, lastChecked, disposed, isVolatile, needsRestore, phase, pc>>

\* Image.readPixels: resolve staleness, hand out the pixels.
ReadPixels(i) ==
    /\ phase = "NORMAL"
    /\ Counted
    /\ i \in images
    /\ \E fail \in IF NeedsReadBack(pixelCache, stale, i) THEN BOOLEAN ELSE {FALSE} :
         LET s0 == [pixelCache |-> pixelCache, stale |-> stale,
                    gpuSurface |-> gpuSurface, readBacks |-> {},
                    visited |-> <<>>, failedAt |-> Nil, err |-> NoErr]
             r == ImgResolveStalePixels(s0, i, fail)
         IN /\ pixelCache' = r.pixelCache
            /\ stale' = r.stale
            /\ History(OpRec("readPixels", Nil, Nil, r.err), {}, drawsOnly)
    /\ UNCHANGED <<images, lastChecked, disposed, isVolatile, base, drawLog,
                   gpuSurface, needsRestore, phase, pc>>

\* Image.draw: draw src onto dst.
Draw(dst, src) ==
    /\ phase = "NORMAL"
    /\ Counted
    /\ dst \in images
    /\ src \in (images \cup disposed) \ {dst}    \* an image is never drawn onto itself
    /\ Len(drawLog[dst]) < MaxLog
    /\ IF src \in disposed
       THEN /\ History(OpRec("draw", dst, src, DependencyError), {}, drawsOnly)
            /\ UNCHANGED <<lastChecked, drawLog, gpuSurface, pixelCache, stale>>
       ELSE LET need == NeedsReadBack(pixelCache, stale, src)
                cache1 == IF need THEN [pixelCache EXCEPT ![src] = gpuSurface[src]]
                          ELSE pixelCache
                stale1 == [stale EXCEPT ![src] = FALSE]
                log1 == [drawLog EXCEPT ![dst] = Append(@, src)]
                r == resetPixelsIfDependingOn(dst, log1, stale1)
            IN /\ gpuSurface' = [gpuSurface EXCEPT
                                   ![dst] = Blend(gpuSurface[dst], gpuSurface[src])]
               /\ drawLog' = log1
               /\ pixelCache' = InvalidateCache(cache1, dst)
               /\ stale' = r.stale
               /\ lastChecked' = r.lastChecked
               /\ History(OpRec("draw", dst, src, NoErr), {}, drawsOnly)
    /\ UNCHANGED <<images, disposed, isVolatile, base, needsRestore, phase, pc>>

\* ------------------------------------------------------------ registry entry points
\* ClearVolatileImages: clearIfVolatile on every image of the registry.
ClearVolatileImages ==
    /\ phase = "NORMAL"
    /\ Counted
    /\ LET hit == {i \in clearTargets(images) : isVolatile[i]}
       IN /\ gpuSurface' = [i \in Ids |-> IF i \in hit THEN ClearValue ELSE gpuSurface[i]]
          /\ base' = [i \in Ids |-> IF i \in hit THEN ClearValue ELSE base[i]]
          /\ drawLog' = [i \in Ids |-> IF i \in hit THEN <<>> ELSE drawLog[i]]
          /\ pixelCache' = [i \in Ids |-> IF i \in hit THEN ClearValue ELSE pixelCache[i]]
          /\ stale' = [i \in Ids |-> IF i \in hit THEN FALSE ELSE stale[i]]
    /\ History(OpRec("clearVolatile", Nil, Nil, NoErr), {}, FALSE)
    /\ UNCHANGED <<images, lastChecked, disposed, isVolatile, needsRestore, phase, pc>>

\* ResolveStalePixels: called by the coordinator before a restore pass, and
\* callable by the environment at any frame boundary.
ResolveStalePixels ==
    /\ \/ phase = "NORMAL" /\ Counted
       \/ phase = "RESTORING" /\ pc = "resolve" /\ ops' = ops
    /\ \E order \in Orders(images), gpuFail \in images \cup {Nil} :
         LET s0 == [pixelCache |-> pixelCache, stale |-> stale,
                    gpuSurface |-> gpuSurface, readBacks |-> {},
                    visited |-> <<>>, failedAt |-> Nil, err |-> NoErr]
             r == resolveLoop(order, s0, gpuFail)
         IN /\ lastChecked' = Nil
            /\ pixelCache' = r.pixelCache
            /\ stale' = r.stale
            /\ op' = OpRec("resolve", Nil, Nil, r.err)
            /\ visited' = r.visited
            /\ failedAt' = r.failedAt
            /\ readBacks' = r.readBacks
            /\ phase' = IF phase = "RESTORING" /\ r.err # NoErr THEN "FATAL" ELSE phase
            /\ pc' = IF phase = "RESTORING"
                     THEN (IF r.err # NoErr THEN "idle" ELSE "teardown")
                     ELSE pc
            /\ episode' = IF phase = "RESTORING"
                          THEN [resolves |-> episode.resolves + 1,
                                failed |-> r.failedAt # Nil]
                          ELSE NoEpisode
    /\ preLoss' = IF phase = "RESTORING" THEN preLoss ELSE NoSnapshot
    /\ UNCHANGED <<images, disposed, isVolatile, base, drawLog, gpuSurface,
                   needsRestore, drawsOnly, lossAfterClear>>
    /\ ImagesOnly

\* Restore: called by the coordinator once the surfaces are invalidated.
Restore ==
    /\ phase = "RESTORING" /\ pc = "restore"
    /\ \E o1 \in Orders(imagesWithoutDependency), o2 \in Orders(imagesWithDependency),
          gpuFail \in images \cup {Nil} :
         LET s0 == [pixelCache |-> pixelCache, stale |-> stale,
                    gpuSurface |-> gpuSurface, needsRestore |-> needsRestore,
                    visited |-> <<>>, failedAt |-> Nil, err |-> NoErr]
             r == restoreLoop(restoreSequence(o1, o2), s0, gpuFail)
         IN /\ gpuSurface' = r.gpuSurface
            /\ pixelCache' = r.pixelCache
            /\ stale' = r.stale
            /\ needsRestore' = r.needsRestore
            /\ op' = OpRec("restore", Nil, Nil, r.err)
            /\ visited' = r.visited
            /\ failedAt' = r.failedAt
            /\ phase' = IF r.err # NoErr THEN "FATAL" ELSE "NORMAL"
    /\ pc' = "idle"
    /\ readBacks' = {}
    /\ lossAfterClear' = FALSE
    /\ UNCHANGED <<images, lastChecked, disposed, isVolatile, base, drawLog,
                   preLoss, drawsOnly, ops, episode>>
    /\ ImagesOnly

\* ------------------------------------------------------------ coordinator
\* The environment's "context lost" notification: NORMAL -> RESTORING.
ContextLost ==
    /\ phase = "NORMAL"
    /\ Counted
    /\ phase' = "RESTORING"
    /\ pc' = "resolve"
    /\ op' = OpRec("contextLost", Nil, Nil, NoErr)
    /\ visited' = <<>>
    /\ failedAt' = Nil
    /\ readBacks' = {}
    /\ preLoss' = [i \in Ids |-> IF i \in images THEN gpuSurface[i] ELSE Absent]
    /\ lossAfterClear' = (op.name = "clearVolatile")
    /\ episode' = NoEpisode
    /\ UNCHANGED <<images, lastChecked, disposed, isVolatile, base, drawLog,
                   gpuSurface, pixelCache, stale, needsRestore, drawsOnly>>
    /\ ImagesOnly

\* The old context is torn down: every live surface becomes invalid.
SurfacesInvalidated ==
    /\ phase = "RESTORING" /\ pc = "teardown"
    /\ pc' = "restore"
    /\ gpuSurface' = [i \in Ids |-> IF i \in images THEN Garbage ELSE gpuSurface[i]]
    /\ needsRestore' = images
    /\ op' = OpRec("surfacesInvalidated", Nil, Nil, NoErr)
    /\ visited' = <<>>
    /\ failedAt' = Nil
    /\ readBacks' = {}
    /\ UNCHANGED <<images, lastChecked, disposed, isVolatile, base, drawLog,
                   pixelCache, stale, phase, preLoss, drawsOnly, lossAfterClear, ops,
                   episode>>
    /\ ImagesOnly

\* ------------------------------------------------------------ registry callers, step by step
\* The methods of the registry; every one takes images.m first.
RegistryOps ==
    {"add", "remove", "resolveStalePixels", "resetPixelsIfDependingOn",
     "restore", "clearVolatileImages"}

\* The arguments a caller can pass: any image, and for the target of
\* resetPixelsIfDependingOn also nil.
ArgsOf(name) ==
    IF name \in {"add", "remove"} THEN Ids
    ELSE IF name = "resetPixelsIfDependingOn" THEN Ids \cup {Nil}
    ELSE {Nil}

\* The callers work on the registry's own fields; the images keep their state.
RegistryOnly ==
    /\ UNCHANGED <<disposed, isVolatile, base, drawLog, gpuSurface, pixelCache,
                   needsRestore, phase, pc, op, visited, failedAt, readBacks,
                   preLoss, drawsOnly, lossAfterClear, ops, episode>>
    /\ UNCHANGED <<contextVars, playerVars, protocolVars>>

\* sync.Mutex.Lock returns only when the mutex is unlocked.
mutexFree(m) == m = "unlocked"

\* Variant of unlocksOn: the lastChecked-hit return leaves without Unlock.
unlocksOnForgetsHit(name, path) ==
    IF name = "resetPixelsIfDependingOn" /\ path = "hit" THEN 0 ELSE 1

\* How many times a method runs i.m.Unlock() between the end of its body
\* and its return, by exit path.
unlocksOn(name, path) ==
    CASE name = "resetPixelsIfDependingOn" /\ path = "nilTarget" -> 1
      [] name = "resetPixelsIfDependingOn" /\ path = "hit" -> 1
      [] name = "resetPixelsIfDependingOn" /\ path = "done" -> 1
      [] OTHER -> 1     \* defer i.m.Unlock(): once, on a nil and on an error return

\* sync.Mutex after n Unlock calls by its holder: none leaves it locked, a
\* second one is the runtime's "unlock of unlocked mutex".
mutexAfter(m, n) ==
    CASE n = 0 -> m
      [] n = 1 -> "unlocked"
      [] OTHER -> "fatal"

\* A goroutine calls a method of the registry.
callEnter(t, name) ==
    /\ call[t].pc = "idle"
    /\ call' = [call EXCEPT ![t] = [name |-> name, pc |-> "lock", path |-> "none"]]
    /\ UNCHANGED <<images, lastChecked, stale, mutex, addedNotRemoved, lastReturn>>
    /\ RegistryOnly

\* i.m.Lock()
mLock(t) ==
    /\ call[t].pc = "lock"
    /\ mutexFree(mutex)
    /\ mutex' = "locked"
    /\ call' = [call EXCEPT ![t].pc = "body"]
    /\ UNCHANGED <<images, lastChecked, stale, addedNotRemoved, lastReturn>>
    /\ RegistryOnly

\* The body of a method is over: it leaves along `path`.
Leaves(t, path) == call' = [call EXCEPT ![t].pc = "exit", ![t].path = path]

\* images.add, the body, for the argument img.
addStep(t, img) ==
    /\ call[t].pc = "body" /\ call[t].name = "add"
    /\ images' = add(images, img)
    /\ addedNotRemoved' = addedNotRemoved \cup {img}
    /\ Leaves(t, IF img \in images THEN "addPresent" ELSE "done")
    /\ UNCHANGED <<lastChecked, stale, mutex, lastReturn>>
    /\ RegistryOnly

\* images.remove, the body, for the argument img.
removeStep(t, img) ==
    /\ call[t].pc = "body" /\ call[t].name = "remove"
    /\ images' = remove(images, img)
    /\ addedNotRemoved' = addedNotRemoved \ {img}
    /\ Leaves(t, IF img \notin images THEN "removeAbsent" ELSE "done")
    /\ UNCHANGED <<lastChecked, stale, mutex, lastReturn>>
    /\ RegistryOnly

\* images.resolveStalePixels, the body: the resolve of an image may fail.
resolveStalePixelsStep(t) ==
    /\ call[t].pc = "body" /\ call[t].name = "resolveStalePixels"
    /\ lastChecked' = Nil
    /\ \E failed \in (IF images = {} THEN {FALSE} ELSE BOOLEAN) :
          Leaves(t, IF failed THEN "error" ELSE "done")
    /\ UNCHANGED <<images, stale, mutex, addedNotRemoved, lastReturn>>
    /\ RegistryOnly

\* images.resetPixelsIfDependingOn, the body, with its two early returns.
resetPixelsIfDependingOnStep(t, target) ==
    /\ call[t].pc = "body" /\ call[t].name = "resetPixelsIfDependingOn"
    /\ LET r == resetPixelsIfDependingOn(target, drawLog, stale)
       IN /\ lastChecked' = r.lastChecked
          /\ stale' = r.stale
    /\ Leaves(t, IF target = Nil THEN "nilTarget"
                 ELSE IF lastChecked = target THEN "hit" ELSE "done")
    /\ UNCHANGED <<images, mutex, addedNotRemoved, lastReturn>>
    /\ RegistryOnly

\* images.restore, the body: the restore of an image may fail.
restoreStep(t) ==
    /\ call[t].pc = "body" /\ call[t].name = "restore"
    /\ \E failed \in (IF images = {} THEN {FALSE} ELSE BOOLEAN) :
          Leaves(t, IF failed THEN "error" ELSE "done")
    /\ UNCHANGED <<images, lastChecked, stale, mutex, addedNotRemoved, lastReturn>>
    /\ RegistryOnly

\* images.clearVolatileImages, the body.
clearVolatileImagesStep(t) ==
    /\ call[t].pc = "body" /\ call[t].name = "clearVolatileImages"
    /\ Leaves(t, "done")
    /\ UNCHANGED <<images, lastChecked, stale, mutex, addedNotRemoved, lastReturn>>
    /\ RegistryOnly

\* The Unlock calls of the exit path (deferred, or written before the
\* return), and the return to the caller.
mUnlock(t) ==
    /\ call[t].pc = "exit"
    /\ mutex' = mutexAfter(mutex, unlocksOn(call[t].name, call[t].path))
    /\ lastReturn' = call[t].path
    /\ call' = [call EXCEPT ![t] = NoCall]
    /\ UNCHANGED <<images, lastChecked, stale, addedNotRemoved>>
    /\ RegistryOnly

\* The caller is between the Lock and the Unlock of its method.
InRegistry(t) == call[t].pc \in {"body", "exit"}

\* ------------------------------------------------------------ audio: the context
\* Steps of the audio package leave the restorable package alone.
ContextOnly == UNCHANGED <<restorableVars, lockVars, playerVars, protocolVars>>

\* Variant of contextExists: the check of NewContext is missing.
contextExistsNever(c) == FALSE

\* NewContext: theContext != nil
contextExists(c) == c # Nil

\* A goroutine calls NewContext.
NewContextCall(g) ==
    /\ ctxCall[g].pc = "idle"
    /\ ctxCall' = [ctxCall EXCEPT ![g] = [name |-> "NewContext", pc |-> "lock",
                                          c |-> Nil, result |-> "none"]]
    /\ UNCHANGED <<theContext, theContextLock, allocated>>
    /\ ContextOnly

\* A goroutine calls CurrentContext.
CurrentContextCall(g) ==
    /\ ctxCall[g].pc = "idle"
    /\ ctxCall' = [ctxCall EXCEPT ![g] = [name |-> "CurrentContext", pc |-> "lock",
                                          c |-> Nil, result |-> "none"]]
    /\ UNCHANGED <<theContext, theContextLock, allocated>>
    /\ ContextOnly

\* theContextLock.Lock()
theContextLockLock(g) ==
    /\ ctxCall[g].pc = "lock"
    /\ mutexFree(theContextLock)
    /\ theContextLock' = "locked"
    /\ ctxCall' = [ctxCall EXCEPT
                     ![g].pc = IF ctxCall[g].name = "NewContext" THEN "check" ELSE "read"]
    /\ UNCHANGED <<theContext, allocated>>
    /\ ContextOnly

\* NewContext: panic when a context is already created, else allocate one.
NewContextCheck(g) ==
    /\ ctxCall[g].pc = "check"
    /\ IF contextExists(theContext)
       THEN /\ ctxCall' = [ctxCall EXCEPT ![g].pc = "unlock", ![g].result = "panic"]
            /\ UNCHANGED allocated
       ELSE /\ allocated' = allocated + 1
            /\ ctxCall' = [ctxCall EXCEPT ![g].pc = "store", ![g].c = allocated + 1]
    /\ UNCHANGED <<theContext, theContextLock>>
    /\ ContextOnly

\* NewContext: theContext = c, then the players and the loop of c.
NewContextStore(g) ==
    /\ ctxCall[g].pc = "store"
    /\ theContext' = ctxCall[g].c
    /\ ctxCall' = [ctxCall EXCEPT ![g].pc = "unlock", ![g].result = "returned"]
    /\ UNCHANGED <<theContextLock, allocated>>
    /\ ContextOnly

\* CurrentContext: c := theContext
CurrentContextRead(g) ==
    /\ ctxCall[g].pc = "read"
    /\ ctxCall' = [ctxCall EXCEPT ![g].pc = "unlock", ![g].c = theContext,
                                  ![g].result = "returned"]
    /\ UNCHANGED <<theContext, theContextLock, allocated>>
    /\ ContextOnly

\* theContextLock.Unlock(): deferred in NewContext (it also runs when the
\* call panics), explicit in CurrentContext; then the call is over.
theContextLockUnlock(g) ==
    /\ ctxCall[g].pc = "unlock"
    /\ theContextLock' = "unlocked"
    /\ ctxCall' = [ctxCall EXCEPT ![g].pc = "idle"]
    /\ UNCHANGED <<theContext, allocated>>
    /\ ContextOnly

\* ------------------------------------------------------------ audio: the players
PlayersOnly == UNCHANGED <<restorableVars, lockVars, contextVars, protocolVars>>

Min(S) == CHOOSE x \in S : \A y \in S : x <= y

\* len(p.buf)
BufLen(b) == IF b = NilBuf THEN 0 ELSE b

\* Variant of addPlayer: the map is made anew with the one player in it.
addPlayerReplaces(set, p) == {p}

\* players.addPlayer
addPlayer(set, p) == set \cup {p}

\* players.removePlayer
removePlayer(set, p) == set \ {p}

\* players.hasPlayer
hasPlayer(set, p) == p \in set

\* players.hasSource: a player in the map has src as its source.
hasSource(set, src) == \E q \in set : player[q].src = src

\* Player.IsPlaying
IsPlaying(p) == hasPlayer(players, p)

\* Player.eofImpl
eofImpl(pl) == pl.srcEOF /\ BufLen(pl.buf) = 0

\* Player.shouldSkipImpl
shouldSkipImpl(pl) == pl.buf = NilBuf \/ eofImpl(pl)

\* Player.sync hands f to the read loop unless the loop has ended.
syncs(pl) == pl.loop = "running"

\* Player.shouldSkip, Player.bufferSizeInBytes, Player.eof: the value the
\* read loop computes, or the zero value when sync returns false.
shouldSkip(pl) == syncs(pl) /\ shouldSkipImpl(pl)
bufferSizeInBytes(pl) == IF syncs(pl) THEN BufLen(pl.buf) ELSE 0
eof(pl) == syncs(pl) /\ eofImpl(pl)

\* players.Read: the length l, cut down to the shortest buffer of the
\* players that are not skipped.
readLength(set, pls) ==
    Min({ReadLen} \cup {bufferSizeInBytes(pls[q]) : q \in {r \in set : ~shouldSkip(pls[r])}})

\* Player.bufferToInt16 with the proceedCh case of the read loop: the player
\* afterwards and the error handed back.
bufferToInt16(pl, l) ==
    IF ~syncs(pl) THEN [pl |-> pl, err |-> AlreadyClosedError]
    ELSE IF pl.readErr
    THEN [pl |-> [pl EXCEPT !.loop = "ended"], err |-> ReadError]
    ELSE IF shouldSkipImpl(pl) THEN [pl |-> pl, err |-> NoErr]
    ELSE [pl |-> [pl EXCEPT !.buf = @ - Min({l, @})], err |-> NoErr]

\* players.Read, the loop that collects the buffers, in iteration order.
RECURSIVE proceedLoop(_, _, _)
proceedLoop(order, pls, l) ==
    IF order = <<>> THEN [player |-> pls, err |-> NoErr]
    ELSE LET q == Head(order)
             r == bufferToInt16(pls[q], l)
             pls1 == [pls EXCEPT ![q] = r.pl]
         IN IF r.err # NoErr THEN [player |-> pls1, err |-> r.err]
            ELSE proceedLoop(Tail(order), pls1, l)

\* NewPlayer(context, src): p is the Player object it would allocate.
NewPlayer(p, src) ==
    /\ theContext # Nil
    /\ player[p].loop = "none"
    /\ \A q \in 1..(p - 1) : player[q].loop # "none"
    /\ \E seekFails \in BOOLEAN :
         LET shared == \E q \in PlayerIds : player[q].loop = "running" /\ player[q].src = src
             err == IF hasSource(players, src) THEN SharedSourceError
                    ELSE IF seekFails THEN SeekError ELSE NoErr
         IN /\ player' = IF err # NoErr THEN player
                          ELSE [player EXCEPT ![p] = [src |-> src, loop |-> "running",
                                                      buf |-> NilBuf, srcEOF |-> FALSE,
                                                      readErr |-> FALSE, timer |-> TRUE]]
            /\ aop' = [AudioOp("NewPlayer", IF err = NoErr THEN p ELSE Nil, src, err)
                          EXCEPT !.shared = shared]
    /\ UNCHANGED <<players, ctxErr>>
    /\ PlayersOnly

\* Player.Play
Play(p) ==
    /\ player[p].loop # "none"
    /\ players' = addPlayer(players, p)
    /\ aop' = AudioOp("Play", p, player[p].src, NoErr)
    /\ UNCHANGED <<player, ctxErr>>
    /\ PlayersOnly

\* Player.Pause
Pause(p) ==
    /\ player[p].loop # "none"
    /\ players' = removePlayer(players, p)
    /\ aop' = AudioOp("Pause", p, player[p].src, NoErr)
    /\ UNCHANGED <<player, ctxErr>>
    /\ PlayersOnly

\* Player.Close, with the closeCh case and the deferred function of the
\* read loop: src.Close() may return an error, which the loop drops.
Close(p) ==
    /\ player[p].loop # "none"
    /\ players' = removePlayer(players, p)
    /\ IF syncs(player[p])
       THEN \E srcCloseFails \in BOOLEAN :
              /\ player' = [player EXCEPT ![p].loop = "ended"]
              /\ aop' = [AudioOp("Close", p, player[p].src, NoErr)
                            EXCEPT !.srcCloseErr = srcCloseFails]
       ELSE /\ player' = player
            /\ aop' = AudioOp("Close", p, player[p].src, AlreadyClosedError)
    /\ UNCHANGED ctxErr
    /\ PlayersOnly

\* Player.readLoop, the timer case: read up to one more sample from src.
readLoopTimer(p) ==
    /\ syncs(player[p])
    /\ player[p].timer
    /\ BufLen(player[p].buf) < MaxBuf
    /\ \E n \in 0..1, err \in {"nil", "EOF", "other"} :
         LET pl == player[p]
             buf1 == IF n = 0 THEN pl.buf ELSE BufLen(pl.buf) + n
             eof1 == pl.srcEOF \/ err = "EOF"
             done == eof1 /\ BufLen(buf1) = 0
         IN player' = [player EXCEPT ![p] =
                          [pl EXCEPT !.buf = buf1,
                                     !.srcEOF = eof1,
                                     !.readErr = IF ~done /\ err = "other" THEN TRUE ELSE @,
                                     !.timer = ~done /\ err # "other"]]
    /\ aop' = AudioOp("readLoop", p, player[p].src, NoErr)
    /\ UNCHANGED <<players, ctxErr>>
    /\ PlayersOnly

\* players.Read, called by Context.loop until it returns an error.
Read ==
    /\ theContext # Nil
    /\ ~ctxErr
    /\ \E order \in Orders(players) :
         LET l == readLength(players, player)
             r == proceedLoop(order, player, l)
             closed == {q \in players : eof(r.player[q])}
         IN /\ player' = r.player
            /\ players' = IF r.err # NoErr THEN players ELSE players \ closed
            /\ ctxErr' = (r.err # NoErr)
            /\ aop' = [AudioOp("Read", Nil, Nil, r.err)
                          EXCEPT !.removed = IF r.err # NoErr THEN {} ELSE closed]
    /\ PlayersOnly

\* ------------------------------------------------------------ audio: the player protocol
\* The methods of a Player and players.Read as goroutines that meet the
\* player's read loop on its channels.  Player.loop is "running" while the
\* read loop waits at its select, names the channel it is sending on while it
\* answers a request, is "exit" once the loop has returned and its deferred
\* function has not run, and "ended" once readLoopEndedCh is closed.
ProtocolOnly == UNCHANGED <<restorableVars, lockVars, contextVars>>

\* The process runs: no goroutine has ended in a panic nothing recovers.
Alive == mixer.pc # "panicked"

\* players.Lock and players.RLock: Read holds the mutex from its first
\* statement to its return; every other holder releases it in the same step.
playersLockFree(m) == m.pc = "idle"

\* A receive from readLoopEndedCh proceeds once the channel is closed.
readLoopEnded(pl) == pl.loop = "ended"

\* The methods that only run a function on the read loop through Player.sync.
SyncCalls == {"Current", "Volume", "SetVolume"}
PlayerCalls == {"Play", "Pause", "IsPlaying", "Close", "Seek"} \cup SyncCalls

\* A goroutine calls a method of player p.
playerCall(t, name, p) ==
    /\ Alive
    /\ pcall[t].pc = "idle"
    /\ player[p].loop # "none"
    /\ pcall' = [pcall EXCEPT ![t] = [NoPCall EXCEPT !.name = name, !.p = p,
                                                     !.pc = "called"]]
    /\ UNCHANGED <<players, player, ctxErr, aop, mixer, pos>>
    /\ ProtocolOnly

\* The call of goroutine t returns err.
Returns(t, err) ==
    /\ pcall' = [pcall EXCEPT ![t] = [NoPCall EXCEPT !.err = err]]
    /\ aop' = aop

\* Player.Play
PlayStep(t) ==
    /\ Alive
    /\ pcall[t].name = "Play" /\ pcall[t].pc = "called"
    /\ playersLockFree(mixer)
    /\ players' = addPlayer(players, pcall[t].p)
    /\ Returns(t, NoErr)
    /\ UNCHANGED <<player, ctxErr, mixer, pos>>
    /\ ProtocolOnly

\* Player.Pause
PauseStep(t) ==
    /\ Alive
    /\ pcall[t].name = "Pause" /\ pcall[t].pc = "called"
    /\ playersLockFree(mixer)
    /\ players' = removePlayer(players, pcall[t].p)
    /\ Returns(t, NoErr)
    /\ UNCHANGED <<player, ctxErr, mixer, pos>>
    /\ ProtocolOnly

\* Player.IsPlaying
IsPlayingStep(t) ==
    /\ Alive
    /\ pcall[t].name = "IsPlaying" /\ pcall[t].pc = "called"
    /\ playersLockFree(mixer)
    /\ Returns(t, NoErr)
    /\ UNCHANGED <<players, player, ctxErr, mixer, pos>>
    /\ ProtocolOnly

\* Player.Current, Volume, SetVolume: Player.sync hands the function to the
\* read loop at its select, or returns false once the loop has ended.
syncStep(t) ==
    /\ Alive
    /\ pcall[t].name \in SyncCalls /\ pcall[t].pc = "called"
    /\ syncs(player[pcall[t].p]) \/ readLoopEnded(player[pcall[t].p])
    /\ Returns(t, NoErr)
    /\ UNCHANGED <<players, player, ctxErr, mixer, pos>>
    /\ ProtocolOnly

\* Player.Close, p.players.removePlayer(p).
CloseRemove(t) ==
    /\ Alive
    /\ pcall[t].name = "Close" /\ pcall[t].pc = "called"
    /\ playersLockFree(mixer)
    /\ players' = removePlayer(players, pcall[t].p)
    /\ pcall' = [pcall EXCEPT ![t].pc = "select"]
    /\ UNCHANGED <<player, ctxErr, aop, mixer, pos>>
    /\ ProtocolOnly

\* Player.Close sends on closeCh and the read loop receives it.
closeCh(t) ==
    /\ Alive
    /\ pcall[t].name = "Close" /\ pcall[t].pc = "select"
    /\ syncs(player[pcall[t].p])
    /\ player' = [player EXCEPT ![pcall[t].p].loop = "closedCh"]
    /\ pcall' = [pcall EXCEPT ![t].pc = "closedCh"]
    /\ UNCHANGED <<players, ctxErr, aop, mixer, pos>>
    /\ ProtocolOnly

\* The read loop sends on closedCh and returns; Close receives and returns nil.
closedCh(t) ==
    /\ Alive
    /\ pcall[t].name = "Close" /\ pcall[t].pc = "closedCh"
    /\ player' = [player EXCEPT ![pcall[t].p].loop = "exit"]
    /\ Returns(t, NoErr)
    /\ UNCHANGED <<players, ctxErr, mixer, pos>>
    /\ ProtocolOnly

\* Player.Close, case <-p.readLoopEndedCh.
CloseEnded(t) ==
    /\ Alive
    /\ pcall[t].name = "Close" /\ pcall[t].pc = "select"
    /\ readLoopEnded(player[pcall[t].p])
    /\ Returns(t, AlreadyClosedError)
    /\ UNCHANGED <<players, player, ctxErr, mixer, pos>>
    /\ ProtocolOnly

\* The deferred function of readLoop: src.Close(), whose error is dropped,
\* and close(p.readLoopEndedCh).
readLoopExit(p) ==
    /\ Alive
    /\ player[p].loop = "exit"
    /\ player' = [player EXCEPT ![p].loop = "ended"]
    /\ UNCHANGED <<players, ctxErr, aop, pcall, mixer, pos>>
    /\ ProtocolOnly

\* Variant of seekHandled: the buffer is kept.
seekHandledKeepsBuf(pl) == [pl EXCEPT !.srcEOF = FALSE, !.loop = "seekedCh"]

\* readLoop, case s := <-p.seekCh, down to the send on seekedCh.
seekHandled(pl) ==
    [pl EXCEPT !.buf = NilBuf, !.srcEOF = FALSE, !.loop = "seekedCh"]

\* Player.Seek sends on seekCh and the read loop receives it; src.Seek
\* returns the position srcPos and an error or none.
seekCh(t) ==
    /\ Alive
    /\ pcall[t].name = "Seek" /\ pcall[t].pc = "called"
    /\ syncs(player[pcall[t].p])
    /\ \E srcPos \in 0..(PosMod - 1), seekFails \in BOOLEAN :
         /\ player' = [player EXCEPT ![pcall[t].p] = seekHandled(@)]
         /\ pos' = [pos EXCEPT ![pcall[t].p] = srcPos]
         /\ pcall' = [pcall EXCEPT ![t] =
                         [@ EXCEPT !.pc = "seekedCh", !.srcPos = srcPos,
                                   !.err = IF seekFails THEN SeekError ELSE NoErr]]
    /\ UNCHANGED <<players, ctxErr, aop, mixer>>
    /\ ProtocolOnly

\* The read loop sends err on seekedCh and sets a new timer; Seek returns err.
seekedCh(t) ==
    /\ Alive
    /\ pcall[t].name = "Seek" /\ pcall[t].pc = "seekedCh"
    /\ player' = [player EXCEPT ![pcall[t].p] = [@ EXCEPT !.loop = "running",
                                                          !.timer = TRUE]]
    /\ Returns(t, pcall[t].err)
    /\ UNCHANGED <<players, ctxErr, mixer, pos>>
    /\ ProtocolOnly

\* Player.Seek, case <-p.readLoopEndedCh.
SeekEnded(t) ==
    /\ Alive
    /\ pcall[t].name = "Seek" /\ pcall[t].pc = "called"
    /\ readLoopEnded(player[pcall[t].p])
    /\ Returns(t, AlreadyClosedError)
    /\ UNCHANGED <<players, player, ctxErr, mixer, pos>>
    /\ ProtocolOnly

\* readLoop, case buf := <-p.proceedCh: the length of the slice sent back,
\* buf itself when the player is skipped and buf[:l/2] with l cut down to
\* len(p.buf) otherwise.
b16Len(pl, l) ==
    IF pl.readErr \/ shouldSkipImpl(pl) THEN l ELSE Min({l, BufLen(pl.buf)})

\* players.Read: one loop over p.players is done with a player; after the
\* last one the next part of Read begins.
nextPlayer(m, rest, after) ==
    IF rest = {} THEN [m EXCEPT !.pc = after, !.todo = players, !.cur = Nil]
    ELSE [m EXCEPT !.todo = rest, !.cur = Nil]

\* players.Read returns an error: the deferred Unlock runs, and Context.loop
\* stores the error and returns.
ReadFails(err) ==
    /\ mixer' = NoRead
    /\ ctxErr' = TRUE
    /\ aop' = aop

\* players.Read: p.Lock(), the case of no players, and l := len(b).
ReadLock ==
    /\ Alive
    /\ theContext # Nil
    /\ ~ctxErr
    /\ mixer.pc = "idle"
    /\ mixer' = IF players = {} THEN mixer
                ELSE [NoRead EXCEPT !.pc = "sizes", !.l = ReadLen, !.todo = players]
    /\ UNCHANGED <<players, player, ctxErr, aop, pcall, pos>>
    /\ ProtocolOnly

\* players.Read, the first loop: player.shouldSkip().
ReadShouldSkip(q) ==
    /\ Alive
    /\ mixer.pc = "sizes" /\ mixer.cur = Nil /\ q \in mixer.todo
    /\ syncs(player[q]) \/ readLoopEnded(player[q])
    /\ mixer' = IF shouldSkip(player[q])
                THEN nextPlayer(mixer, mixer.todo \ {q}, "proceed")
                ELSE [mixer EXCEPT !.cur = q]
    /\ UNCHANGED <<players, player, ctxErr, aop, pcall, pos>>
    /\ ProtocolOnly

\* players.Read, the first loop: player.bufferSizeInBytes() and the cut of l.
ReadBufferSize ==
    /\ Alive
    /\ mixer.pc = "sizes" /\ mixer.cur # Nil
    /\ syncs(player[mixer.cur]) \/ readLoopEnded(player[mixer.cur])
    /\ mixer' = nextPlayer([mixer EXCEPT !.l = Min({@, bufferSizeInBytes(player[mixer.cur])})],
                           mixer.todo \ {mixer.cur}, "proceed")
    /\ UNCHANGED <<players, player, ctxErr, aop, pcall, pos>>
    /\ ProtocolOnly

\* players.Read, the second loop: bufferToInt16 sends on proceedCh and the
\* read loop receives it, takes the samples out of p.buf and advances p.pos.
proceedCh(q) ==
    /\ Alive
    /\ mixer.pc = "proceed" /\ mixer.cur = Nil /\ q \in mixer.todo
    /\ syncs(player[q])
    /\ LET r == bufferToInt16(player[q], mixer.l)
       IN /\ player' = [player EXCEPT ![q] = [r.pl EXCEPT !.loop = "proceededCh"]]
          /\ pos' = [pos EXCEPT ![q] =
                        (@ + BufLen(player[q].buf) - BufLen(r.pl.buf)) % PosMod]
    /\ mixer' = [mixer EXCEPT !.cur = q, !.b16 = b16Len(player[q], mixer.l)]
    /\ UNCHANGED <<players, ctxErr, aop, pcall>>
    /\ ProtocolOnly

\* The read loop sends on proceededCh, and returns when it sends readErr;
\* bufferToInt16 returns the slice and the error to Read.
proceededCh ==
    /\ Alive
    /\ mixer.pc = "proceed" /\ mixer.cur # Nil
    /\ IF player[mixer.cur].readErr
       THEN /\ player' = [player EXCEPT ![mixer.cur].loop = "exit"]
            /\ ReadFails(ReadError)
       ELSE /\ player' = [player EXCEPT ![mixer.cur].loop = "running"]
            /\ mixer' = nextPlayer([mixer EXCEPT !.short = @ \/ mixer.b16 < mixer.l,
                                                 !.b16 = 0],
                                   mixer.todo \ {mixer.cur}, "mix")
            /\ UNCHANGED <<ctxErr, aop>>
    /\ UNCHANGED <<players, pcall, pos>>
    /\ ProtocolOnly

\* Player.bufferToInt16, case <-p.readLoopEndedCh.
ReadEnded(q) ==
    /\ Alive
    /\ mixer.pc = "proceed" /\ mixer.cur = Nil /\ q \in mixer.todo
    /\ readLoopEnded(player[q])
    /\ ReadFails(AlreadyClosedError)
    /\ UNCHANGED <<players, player, pcall, pos>>
    /\ ProtocolOnly

\* players.Read, the mixing loop: b16[i] for every i below l/2 and every
\* slice.  An index past the end of a slice is a run-time panic, which ends
\* the process.
ReadMix ==
    /\ Alive
    /\ mixer.pc = "mix"
    /\ mixer' = [mixer EXCEPT !.pc = IF mixer.short THEN "panicked" ELSE "eofs"]
    /\ UNCHANGED <<players, player, ctxErr, aop, pcall, pos>>
    /\ ProtocolOnly

\* players.Read, the closing loop: player.eof().
ReadEof(q) ==
    /\ Alive
    /\ mixer.pc = "eofs" /\ q \in mixer.todo
    /\ syncs(player[q]) \/ readLoopEnded(player[q])
    /\ mixer' = [mixer EXCEPT !.todo = @ \ {q},
                              !.closed = IF eof(player[q]) THEN @ \cup {q} ELSE @]
    /\ UNCHANGED <<players, player, ctxErr, aop, pcall, pos>>
    /\ ProtocolOnly

\* players.Read deletes the closed players, unlocks and returns l, nil.
ReadReturn ==
    /\ Alive
    /\ mixer.pc = "eofs" /\ mixer.todo = {}
    /\ players' = players \ mixer.closed
    /\ mixer' = NoRead
    /\ UNCHANGED <<player, ctxErr, aop, pcall, pos>>
    /\ ProtocolOnly

\* ------------------------------------------------------------ dependency graph
Sources(i) == Range(drawLog[i])
LiveSources(i) == Sources(i) \cap images

RECURSIVE ReachWithin(_, _)
ReachWithin(S, n) ==
    IF n = 0 THEN S
    ELSE ReachWithin(S \cup UNION {LiveSources(j) : j \in S}, n - 1)

\* No live image reaches itself along draw log references.
Acyclic == \A i \in images : i \notin ReachWithin(LiveSources(i), NumImages)

\* Every referenced source references nothing itself.
DepthAtMost2 == \A i \in images : \A s \in LiveSources(i) : LiveSources(s) = {}

RestoreStarts == phase = "RESTORING" /\ pc = "restore"

\* ------------------------------------------------------------ properties
\* C1: in one Restore() pass over an acyclic dependency graph of any depth,
\* the restore of an image is invoked only after the restore of every live
\* image its draw log references has been invoked and has completed.
C1_RestoredAfterItsSources ==
    (op.name = "restore" /\ Acyclic) =>
        \A k \in 1..Len(visited) :
            \A s \in LiveSources(visited[k]) :
                \E j \in 1..(k - 1) : visited[j] = s

C4_RestoreAbortsOnFirstFailure ==
    (op.name = "restore" /\ failedAt # Nil) =>
        /\ op.err = RestoreError
        /\ phase = "FATAL"
        /\ visited[Len(visited)] = failedAt
        /\ \A k \in 1..(Len(visited) - 1) :
              visited[k] \notin needsRestore /\ visited[k] # failedAt
        /\ \A i \in images :
              (i \notin {visited[k] : k \in 1..(Len(visited) - 1)}) =>
                  (i \in needsRestore /\ gpuSurface[i] = Garbage)

C4_Witness ==
    /\ op.name = "restore"
    /\ failedAt # Nil
    /\ Len(visited) = 2
    /\ Cardinality(images) = 3
    /\ visited[1] \notin needsRestore

\* C5: when resolving the stale pixels of an image fails, ResolveStalePixels()
\* returns that error at once: the failing image is the last one visited and
\* no read-back is issued for an image that was not visited before it.
C5_ResolveShortCircuits ==
    (op.name = "resolve" /\ failedAt # Nil) =>
        /\ op.err = GPUReadError
        /\ visited[Len(visited)] = failedAt
        /\ \A k \in 1..(Len(visited) - 1) : visited[k] # failedAt
        /\ readBacks \subseteq {visited[k] : k \in 1..(Len(visited) - 1)}
        /\ \A i \in images \ Range(visited) : i \notin readBacks

C5_Witness ==
    /\ op.name = "resolve"
    /\ failedAt # Nil
    /\ Len(visited) = 2
    /\ visited[1] \in readBacks
    /\ \E i \in images \ Range(visited) : NeedsReadBack(pixelCache, stale, i)

\* C6: staleness propagation.  After a draw onto image B every live image
\* whose draw log references B is stale, whatever was resolved before, and
\* the flag of every image that does not reference B (the source of the
\* draw, which the draw resolves, aside) is left as it was.
C6_StalenessPropagation ==
    [][(op'.name = "draw" /\ op'.err = NoErr) =>
          \A c \in images :
              IF op'.target \in Range(drawLog[c])
              THEN stale'[c]
              ELSE (c # op'.src => stale'[c] = stale[c])]_vars

C8_VolatileCleared ==
    op.name = "clearVolatile" =>
        \A i \in images :
            isVolatile[i] =>
                /\ drawLog[i] = <<>>
                /\ gpuSurface[i] = ClearValue
                /\ PixelsOf(i) = ClearValue

C8_Witness ==
    /\ op.name = "clearVolatile"
    /\ \E i \in images : isVolatile[i] /\ lastChecked = i
    /\ \E i \in images : ~isVolatile[i] /\ drawLog[i] # <<>>

C10_DisposedSourceFails ==
    /\ (op.name = "draw" /\ op.src \in disposed) => op.err = DependencyError
    /\ (op.name = "restore" /\ \E y \in images : Sources(y) \cap disposed # {}) =>
           (op.err = RestoreError /\ phase = "FATAL")

C10_Witness ==
    /\ op.name = "restore"
    /\ op.err = RestoreError
    /\ \E y \in images : Sources(y) \cap disposed # {}

\* C11: in every reachable state every source a draw log entry of a live
\* image references is itself in the registry's live-image set.
C11_SourcesRegistered ==
    \A i \in images : Sources(i) \subseteq images

C13_CoordinatorTransitions ==
    [][/\ (phase = "NORMAL" /\ phase' # "NORMAL") =>
              (phase' = "RESTORING" /\ op'.name = "contextLost")
       /\ (phase = "RESTORING" /\ phase' = "NORMAL") =>
              /\ op'.name = "restore" /\ op'.err = NoErr
              /\ Range(visited') = images
              /\ needsRestore' = {}
       /\ (phase = "RESTORING" /\ op'.name = "restore" /\ op'.err # NoErr) =>
              phase' = "FATAL"
       /\ phase = "FATAL" => UNCHANGED vars]_vars

C13_Witness ==
    /\ phase = "FATAL"
    /\ op.name = "restore"
    /\ Len(visited) >= 2
    /\ ops = MaxOps

\* C14: whenever Restore() starts or has run, ResolveStalePixels() has run
\* exactly once in that loss episode and no image's resolve failed in it;
\* it ran before the surfaces were invalidated.
C14_ResolveOnceBeforeRestore ==
    (RestoreStarts \/ op.name = "restore") =>
        (episode.resolves = 1 /\ ~episode.failed)

C14_Witness ==
    /\ op.name = "restore"
    /\ op.err = NoErr
    /\ episode.resolves = 1
    /\ Cardinality(images) >= 2
    /\ \E i \in images : drawLog[i] # <<>>

\* C15: under any interleaving of concurrent callers at most one of them is
\* between the Lock and the Unlock of a registry method, and the mutex is
\* locked exactly while one is: every exit path (the nil-target return, the
\* lastChecked-hit return, the error returns and the plain ones) has run
\* Unlock exactly once when the call returns, neither leaving the mutex
\* locked nor unlocking it twice.
C15_MutexDiscipline ==
    /\ Cardinality({t \in Callers : InRegistry(t)}) <= 1
    /\ mutex = "locked" <=> \E t \in Callers : InRegistry(t)
    /\ mutex = "unlocked" <=> \A t \in Callers : ~InRegistry(t)

C15_Witness ==
    /\ lastReturn = "hit"
    /\ mutex = "locked"
    /\ \E t, u \in Callers :
          /\ call[t].pc = "exit" /\ call[t].path = "error"
          /\ call[u].pc = "lock"

\* C16: after any sequence of add and remove calls the live-image set is
\* exactly the set of images added and not removed afterwards.
C16_LiveSetIsAddedNotRemoved ==
    images = addedNotRemoved

C16_Witness ==
    /\ lastReturn = "addPresent"
    /\ images # {} /\ images # Ids
    /\ \E t \in Callers : call[t].pc = "exit" /\ call[t].path = "removeAbsent"

\* C17: under any interleaving of concurrent NewContext and CurrentContext
\* calls at most one Context is ever allocated; theContext is that Context
\* from the moment the first NewContext stores it and nil before; every
\* NewContext call that got past its check without a panic is the one that
\* allocated it, and CurrentContext returns nil or that Context.
C17_SingleContext ==
    /\ allocated <= 1
    /\ theContext = IF allocated = 1 /\ \A g \in Callers : ctxCall[g].pc # "store"
                    THEN 1 ELSE Nil
    /\ \A g \in Callers :
          /\ (ctxCall[g].name = "NewContext" /\ ctxCall[g].pc \in {"store", "unlock", "idle"}
                 /\ ctxCall[g].result # "panic") => ctxCall[g].c = 1
          /\ (ctxCall[g].name = "CurrentContext" /\ ctxCall[g].result = "returned") =>
                 ctxCall[g].c \in {Nil, 1}
    /\ Cardinality({g \in Callers : ctxCall[g].name = "NewContext"
                                      /\ ctxCall[g].result # "panic"
                                      /\ ctxCall[g].pc \in {"store", "unlock", "idle"}}) <= 1

C17_Witness ==
    \E g, h \in Callers :
        /\ ctxCall[g].name = "NewContext" /\ ctxCall[g].result = "returned"
        /\ ctxCall[g].pc = "idle"
        /\ ctxCall[h].name = "NewContext" /\ ctxCall[h].result = "panic"
        /\ ctxCall[h].pc = "idle"
        /\ theContext = ctxCall[g].c

\* C18: NewPlayer returns an error whenever src is the source of another
\* player of the context that has been created and not closed, playing or not.
C18_SharedSourceRejected ==
    (aop.name = "NewPlayer" /\ aop.shared) => aop.err # NoErr

\* C19: Player.Close returns an error when src.Close returned an error.
C19_CloseReportsSourceError ==
    (aop.name = "Close" /\ aop.srcCloseErr) => aop.err # NoErr

\* C20: IsPlaying(p) is membership of p in the context's player set.  Play
\* makes it true; Pause and Close make it false; a Read that returns nil
\* makes it false for every player its closing loop finds at end of stream
\* with an empty buffer, and for no other; an operation on one player, and
\* the read loop of any player, leave IsPlaying of every other player as
\* it was.
C20_IsPlayingIsMembership ==
    [][/\ aop'.name = "Play" => hasPlayer(players', aop'.p)
       /\ aop'.name \in {"Pause", "Close"} => ~hasPlayer(players', aop'.p)
       /\ (aop'.name = "Read" /\ aop'.err = NoErr) =>
              \A q \in PlayerIds :
                  hasPlayer(players', q) <=> (hasPlayer(players, q) /\ ~eof(player'[q]))
       /\ aop'.name \in {"Play", "Pause", "Close", "NewPlayer", "readLoop"} =>
              \A q \in PlayerIds \ {aop'.p} :
                  hasPlayer(players', q) <=> hasPlayer(players, q)
       /\ aop'.name = "readLoop" => players' = players]_vars

C20_Witness ==
    /\ aop.name = "Read" /\ aop.err = NoErr
    /\ aop.removed # {}
    /\ \E q \in PlayerIds : IsPlaying(q) /\ q \notin aop.removed
    /\ \A q \in aop.removed : ~IsPlaying(q) /\ eofImpl(player[q])

\* C21: when Player.Seek returns after the read loop has served it, the
\* buffer of the player is nil, so that nothing buffered before the seek can
\* reach the mixer, srcEOF is false, p.pos is the position src.Seek
\* returned, a timer is set again even if reading had stopped, and Seek
\* returns the error of src.Seek; when Seek returns without having been
\* served, the read loop has ended, Seek returns the already-closed error
\* and the player is as it was.
C21_SeekDiscardsBuffer ==
    [][\A t \in Callers :
          (pcall[t].name = "Seek" /\ pcall'[t].pc = "idle") =>
              IF pcall[t].pc = "seekedCh"
              THEN /\ player'[pcall[t].p].buf = NilBuf
                   /\ ~player'[pcall[t].p].srcEOF
                   /\ player'[pcall[t].p].timer
                   /\ syncs(player'[pcall[t].p])
                   /\ pos'[pcall[t].p] = pcall[t].srcPos
                   /\ pcall'[t].err = pcall[t].err
                   /\ pcall'[t].err \in {NoErr, SeekError}
              ELSE /\ readLoopEnded(player[pcall[t].p])
                   /\ pcall'[t].err = AlreadyClosedError
                   /\ player' = player /\ pos' = pos]_vars

\* A Seek is about to return on a player whose reading had stopped at the
\* end of the stream, while the mixer is in a Read.
C21_Witness ==
    \E t \in Callers :
        /\ pcall[t].name = "Seek" /\ pcall[t].pc = "seekedCh"
        /\ ~player[pcall[t].p].timer /\ ~player[pcall[t].p].readErr
        /\ player[pcall[t].p].buf = NilBuf
        /\ pcall[t].p \in players
        /\ mixer.pc = "proceed"

\* C22: the lastChecked memo never suppresses a needed staleness mark.  When
\* resetPixelsIfDependingOn(target) has returned for a non-nil target (a
\* draw onto target calls it), every live image whose draw log references
\* target is stale, also when the scan was skipped because lastChecked was
\* target already.
C22_MemoNeverSuppresses ==
    (op.name = "draw" /\ op.err = NoErr) =>
        \A c \in images : op.target \in Range(drawLog[c]) => stale[c]

\* C23: a Restore() pass that returns nil restores every live image exactly
\* once: the two groups of the partition by hasDependency() are disjoint and
\* cover the live set, every live image is visited and none is visited twice.
C23_EachImageRestoredOnce ==
    /\ imagesWithoutDependency \cap imagesWithDependency = {}
    /\ imagesWithoutDependency \cup imagesWithDependency = images
    /\ (op.name = "restore" /\ op.err = NoErr) =>
          /\ Range(visited) = images
          /\ \A a, b \in 1..Len(visited) : visited[a] = visited[b] => a = b

C23_Witness ==
    /\ op.name = "restore" /\ op.err = NoErr
    /\ imagesWithoutDependency # {} /\ imagesWithDependency # {}
    /\ Len(visited) >= 2

\* C26: players.Read returns a non-nil error only when the source of a
\* playing player returned a read error other than EOF; a player that has
\* been closed never makes Read fail.
C26_ReadFailsOnlyOnSourceError ==
    (aop.name = "Read" /\ aop.err # NoErr) => aop.err = ReadError

\* C24: in players.Read every slice bufferToInt16(l) hands back has at least
\* as many samples as the mixing loop reads from it, whatever the read loops
\* did in between, so the mixing loop never indexes a slice out of range.
C24_SlicesLongEnough ==
    /\ (mixer.pc = "proceed" /\ mixer.cur # Nil) => mixer.b16 >= mixer.l
    /\ ~mixer.short
    /\ mixer.pc # "panicked"

\* C25: deadlock freedom of the player protocol.  Under fair scheduling every
\* call of a Player method by any goroutine, and every players.Read,
\* eventually returns, whether the read loop runs or has ended.
C25_EveryCallReturns ==
    /\ \A t \in Callers : (pcall[t].pc # "idle") ~> (pcall[t].pc = "idle")
    /\ (mixer.pc # "idle") ~> (mixer.pc = "idle")

\* ------------------------------------------------------------ specification
Next ==
    \/ \E i \in Ids, vol \in BOOLEAN : NewImage(i, vol)
    \/ \E i \in Ids : Dispose(i)
    \/ \E i \in Ids, v \in Pixels : ReplacePixels(i, v)
    \/ \E i \in Ids : ReadPixels(i)
    \/ \E dst \in Ids, src \in Ids : Draw(dst, src)
    \/ ClearVolatileImages
    \/ ResolveStalePixels
    \/ ContextLost
    \/ SurfacesInvalidated
    \/ Restore

Spec == Init /\ [][Next]_vars

\* Concurrent callers of the registry's methods.
NextRegistry ==
    \/ \E t \in Callers, name \in RegistryOps : callEnter(t, name)
    \/ \E t \in Callers : mLock(t)
    \/ \E t \in Callers, img \in ArgsOf("add") : addStep(t, img)
    \/ \E t \in Callers, img \in ArgsOf("remove") : removeStep(t, img)
    \/ \E t \in Callers : resolveStalePixelsStep(t)
    \/ \E t \in Callers, target \in ArgsOf("resetPixelsIfDependingOn") :
          resetPixelsIfDependingOnStep(t, target)
    \/ \E t \in Callers : restoreStep(t)
    \/ \E t \in Callers : clearVolatileImagesStep(t)
    \/ \E t \in Callers : mUnlock(t)

SpecRegistry == Init /\ [][NextRegistry]_vars

\* Concurrent callers of NewContext and CurrentContext.
NextContext ==
    \/ \E g \in Callers : NewContextCall(g)
    \/ \E g \in Callers : CurrentContextCall(g)
    \/ \E g \in Callers : theContextLockLock(g)
    \/ \E g \in Callers : NewContextCheck(g)
    \/ \E g \in Callers : NewContextStore(g)
    \/ \E g \in Callers : CurrentContextRead(g)
    \/ \E g \in Callers : theContextLockUnlock(g)

SpecContext == Init /\ [][NextContext]_vars

\* The players of the context, their read loops and the mixer.
NextAudio ==
    \/ \E p \in PlayerIds, src \in SourceIds : NewPlayer(p, src)
    \/ \E p \in PlayerIds : Play(p)
    \/ \E p \in PlayerIds : Pause(p)
    \/ \E p \in PlayerIds : Close(p)
    \/ \E p \in PlayerIds : readLoopTimer(p)
    \/ Read

SpecAudio == InitAudio /\ [][NextAudio]_vars

\* The methods of a player, its read loop and the mixer, step by step.
NextProtocol ==
    \/ \E p \in 1..StepPlayers : Alive /\ playersLockFree(mixer) /\ NewPlayer(p, p)
    \/ \E t \in Callers, name \in PlayerCalls, p \in 1..StepPlayers : playerCall(t, name, p)
    \/ \E t \in Callers : PlayStep(t)
    \/ \E t \in Callers : PauseStep(t)
    \/ \E t \in Callers : IsPlayingStep(t)
    \/ \E t \in Callers : syncStep(t)
    \/ \E t \in Callers : CloseRemove(t)
    \/ \E t \in Callers : closeCh(t)
    \/ \E t \in Callers : closedCh(t)
    \/ \E t \in Callers : CloseEnded(t)
    \/ \E t \in Callers : seekCh(t)
    \/ \E t \in Callers : seekedCh(t)
    \/ \E t \in Callers : SeekEnded(t)
    \/ \E p \in PlayerIds : Alive /\ readLoopTimer(p)
    \/ \E p \in PlayerIds : readLoopExit(p)
    \/ ReadLock
    \/ \E q \in PlayerIds : ReadShouldSkip(q)
    \/ ReadBufferSize
    \/ \E q \in PlayerIds : proceedCh(q)
    \/ proceededCh
    \/ \E q \in PlayerIds : ReadEnded(q)
    \/ ReadMix
    \/ \E q \in PlayerIds : ReadEof(q)
    \/ ReadReturn

SpecProtocol == InitAudio /\ [][NextProtocol]_vars

\* A step of the call goroutine t is in, once the call is made.
CallerStep(t) ==
    \/ PlayStep(t) \/ PauseStep(t) \/ IsPlayingStep(t) \/ syncStep(t)
    \/ CloseRemove(t) \/ closeCh(t) \/ closedCh(t) \/ CloseEnded(t)
    \/ seekCh(t) \/ seekedCh(t) \/ SeekEnded(t)

\* A step of a players.Read call that has begun.
MixerStep ==
    \/ \E q \in PlayerIds : ReadShouldSkip(q)
    \/ ReadBufferSize
    \/ \E q \in PlayerIds : proceedCh(q)
    \/ proceededCh
    \/ \E q \in PlayerIds : ReadEnded(q)
    \/ ReadMix
    \/ \E q \in PlayerIds : ReadEof(q)
    \/ ReadReturn

\* Fair scheduling.  A goroutine that can run does run.  One that waits for
\* the read loop or for the mutex of players is served when the loop comes
\* back to its select, or the mutex is released, again and again: select
\* chooses among its ready cases at random and a waiting Lock is not
\* overtaken for ever.  The read loop runs its deferred function once it
\* has returned.
ProtocolFair ==
    /\ \A t \in Callers : SF_vars(CallerStep(t))
    /\ SF_vars(MixerStep)
    /\ \A p \in PlayerIds : WF_vars(readLoopExit(p))

SpecProtocolFair == SpecProtocol /\ ProtocolFair
====
